---------------------------- MODULE Spec2Model ----------------------------
(***************************************************************************)
(* Resume Analyzer (resume-tracker/main.py).                               *)
(*                                                                         *)
(* A text is a sequence of one-character strings.  The pure functions of   *)
(* main.py are operators over such sequences; the Streamlit script is a    *)
(* state machine whose state is the two input widgets and what the last    *)
(* run of the script rendered.                                             *)
(***************************************************************************)
EXTENDS Integers, Sequences, FiniteSets

VARIABLES
    nlp,              \* the spaCy pipeline loaded at line 10
    job_description,  \* value of the text area, line 77
    uploaded_file,    \* value of the file uploader, line 78
    clicked,          \* what st.button returned in the last script run, line 83
    display,          \* the st.* elements the last script run rendered
    failed_before,    \* history: some analysis of this session ended in an error
    inputs,           \* arguments of a direct call of one function
    ret               \* <<v>> once that call has returned v, <<>> before

vars == <<nlp, job_description, uploaded_file, clicked, display, failed_before, inputs, ret>>

\* a direct call has returned, and what it returned
Returned == ret # <<>>
Result == ret[1]

(***************************************************************************)
(* Bounds of the model.                                                    *)
(***************************************************************************)
MaxLen == 4        \* characters of a raw text given to preprocess_text
MaxWords == 2      \* words of a text given to analyze_resume
MaxSkills == 4     \* skills drawn for the set comparison
MaxJobWords == 1   \* words of the job description typed into the form
MaxPages == 2      \* pages of an uploaded PDF
MaxDocWords == 2   \* words on all pages of an uploaded PDF together

(***************************************************************************)
(* Characters, as Python's str and re classify them.                       *)
(***************************************************************************)
\* "U+1D400" stands for the one character MATHEMATICAL BOLD CAPITAL A: uppercase
\* (str.isupper), a letter, and without a lowercase mapping
UpperChars == {"A", "C", "U+1D400"}
LowerChars == {"a", "b", "c", "d", "e", "l", "p", "w", "y"}
Whitespace == {" ", "\n"}
Punctuation == {".", "!", "*", "#"}

\* str.lower() on one character
LowerChar(c) ==
    CASE c = "A" -> "a"
      [] c = "C" -> "c"
      [] OTHER -> c

\* \w of re (str patterns): letters, digits and the underscore
IsWordChar(c) == c \in UpperChars \cup LowerChars \cup {"_"}

\* \s of re, and the separators of str.split()
IsSpace(c) == c \in Whitespace

\* text.lower()
Lower(text) == [i \in 1..Len(text) |-> LowerChar(text[i])]

\* re.sub(r'[^\w\s]', ' ', text)
SubNonWord(text) ==
    [i \in 1..Len(text) |->
        IF ~IsWordChar(text[i]) /\ ~IsSpace(text[i]) THEN " " ELSE text[i]]

\* re.sub(r'[\*#]', '', text)
SubMarkdown(text) == SelectSeq(text, LAMBDA c : c \notin {"*", "#"})

\* text.split(): the maximal runs of non-whitespace characters, in order
RECURSIVE SplitFrom(_, _, _, _)
SplitFrom(text, i, cur, acc) ==
    IF i > Len(text)
    THEN IF cur = <<>> THEN acc ELSE Append(acc, cur)
    ELSE IF IsSpace(text[i])
         THEN SplitFrom(text, i + 1, <<>>,
                        IF cur = <<>> THEN acc ELSE Append(acc, cur))
         ELSE SplitFrom(text, i + 1, Append(cur, text[i]), acc)

Split(text) == SplitFrom(text, 1, <<>>, <<>>)

\* ' '.join(words)
RECURSIVE JoinSp(_)
JoinSp(words) ==
    IF words = <<>> THEN <<>>
    ELSE IF Len(words) = 1 THEN words[1]
    ELSE words[1] \o <<" ">> \o JoinSp(Tail(words))

\* a faulty variant of preprocess_text: whitespace is collapsed before, not after,
\* the punctuation is replaced by spaces
preprocess_text_collapse_first(text) ==
    SubMarkdown(SubNonWord(JoinSp(Split(Lower(text)))))

\* preprocess_text, lines 22-27
preprocess_text(text) == JoinSp(Split(SubMarkdown(SubNonWord(Lower(text)))))

(***************************************************************************)
(* The spaCy pipeline.  nlp(text) is modelled by a tokenizer and a lexicon *)
(* that gives each token the annotations main.py reads: is_stop, is_punct, *)
(* pos_ and the PERSON entities.                                           *)
(***************************************************************************)
W_Al == <<"A", "l">>
W_py == <<"p", "y">>
W_db == <<"d", "b">>
W_C == <<"C">>
W_we == <<"w", "e">>
W_bang == <<"!">>

\* spacy.load('en_core_web_lg'), line 10
en_core_web_lg ==
    [stop |-> {W_we}, person |-> {W_Al}, propn |-> {W_Al, W_C}, pron |-> {W_we}]

\* the tokens of nlp(text): the runs of word characters, and every other
\* non-blank character on its own
RECURSIVE TokensFrom(_, _, _, _)
TokensFrom(text, i, cur, acc) ==
    LET flushed == IF cur = <<>> THEN acc ELSE Append(acc, cur)
    IN  IF i > Len(text) THEN flushed
        ELSE IF IsWordChar(text[i])
             THEN TokensFrom(text, i + 1, Append(cur, text[i]), acc)
             ELSE IF IsSpace(text[i])
                  THEN TokensFrom(text, i + 1, <<>>, flushed)
                  ELSE TokensFrom(text, i + 1, <<>>, Append(flushed, <<text[i]>>))

Doc(text) == TokensFrom(text, 1, <<>>, <<>>)

is_punct(token) == Len(token) = 1 /\ ~IsWordChar(token[1])
is_stop(model, token) == Lower(token) \in model.stop
pos_(model, token) ==
    IF is_punct(token) THEN "PUNCT"
    ELSE IF token \in model.propn THEN "PROPN"
    ELSE IF token \in model.pron THEN "PRON"
    ELSE "NOUN"

\* doc.ents with label_ == "PERSON", in document order
PersonEnts(model, text) == SelectSeq(Doc(text), LAMBDA t : t \in model.person)

UnknownApplicant == <<"Unknown Applicant">>

\* extract_name_from_text, lines 30-36
extract_name_from_text(model, text) ==
    LET ents == PersonEnts(model, text)
    IN  IF ents # <<>> THEN ents[1] ELSE UnknownApplicant

\* extract_skills_from_text, lines 39-46
extract_skills_from_text(model, text) ==
    LET doc == Doc(text)
    IN  {Lower(doc[i]) : i \in {j \in 1..Len(doc) :
            /\ ~is_stop(model, doc[j])
            /\ ~is_punct(doc[j])
            /\ pos_(model, doc[j]) \in {"NOUN", "PROPN"}}}

(***************************************************************************)
(* The skill comparison, lines 59-60.                                      *)
(***************************************************************************)
\* a faulty variant of CompareSkills: the difference is taken the wrong way round
CompareSkills_swapped(resume_skills, job_skills) ==
    [matching_skills |-> resume_skills \cap job_skills,
     missing_skills |-> resume_skills \ job_skills]

CompareSkills(resume_skills, job_skills) ==
    [matching_skills |-> resume_skills \cap job_skills,
     missing_skills |-> job_skills \ resume_skills]

(***************************************************************************)
(* TfidfVectorizer(ngram_range=(1, 2)) and cosine_similarity, lines 63-65. *)
(* Weights are kept as integers: every weight is scaled by 5, and the idf  *)
(* ln(3/2) + 1 = 1.405... of a term found in one of the two documents is   *)
(* taken as 7/5.  A similarity is the pair (dot, den2) that stands for     *)
(* dot / sqrt(den2).                                                       *)
(***************************************************************************)
\* the analyzer: lowercase, then token_pattern (?u)\b\w\w+\b
VecTokens(text) ==
    SelectSeq(Split(SubNonWord(Lower(text))), LAMBDA w : Len(w) >= 2)

\* the 1-grams and 2-grams of a token list, each a sequence of tokens
Ngrams(tokens) ==
    {<<tokens[i]>> : i \in 1..Len(tokens)}
        \cup {<<tokens[i], tokens[i + 1]>> : i \in 1..(Len(tokens) - 1)}

\* term frequency: the occurrences of an n-gram in a token list
Tf(tokens, g) ==
    Cardinality({i \in 1..(Len(tokens) - Len(g) + 1) :
                    SubSeq(tokens, i, i + Len(g) - 1) = g})

\* 5 * idf, smooth_idf: ln((1 + n) / (1 + df)) + 1 with n = 2 documents
Idf5(df) == IF df >= 2 THEN 5 ELSE 7

\* a faulty variant of FitVocabulary: the vectorizer is fitted on the first
\* document alone
FitVocabulary_first_only(tokens) == Ngrams(tokens[1])

\* vocabulary_ after fit: the n-grams of exactly the documents given
FitVocabulary(tokens) == UNION {Ngrams(tokens[i]) : i \in DOMAIN tokens}

\* vectorizer.fit_transform(docs): the vocabulary and one weight vector per
\* document (the l2 normalisation is done in Cosine)
FitTransform(docs) ==
    LET tokens == [i \in DOMAIN docs |-> VecTokens(docs[i])]
        vocab == FitVocabulary(tokens)
        df == [g \in vocab |->
                 Cardinality({i \in DOMAIN docs : g \in Ngrams(tokens[i])})]
    IN  [vocabulary_ |-> vocab,
         vectors |-> [i \in DOMAIN docs |->
                        [g \in vocab |-> Tf(tokens[i], g) * Idf5(df[g])]]]

RECURSIVE SumOver(_, _)
SumOver(S, f) ==
    IF S = {} THEN 0
    ELSE LET x == CHOOSE y \in S : TRUE
         IN  f[x] + SumOver(S \ {x}, f)

\* cosine_similarity(x, y)[0][0]; a zero norm is replaced by 1
\* (sklearn.preprocessing.normalize)
Cosine(x, y) ==
    LET vocab == DOMAIN x
        n1 == SumOver(vocab, [g \in vocab |-> x[g] * x[g]])
        n2 == SumOver(vocab, [g \in vocab |-> y[g] * y[g]])
    IN  [dot |-> SumOver(vocab, [g \in vocab |-> x[g] * y[g]]),
         den2 |-> (IF n1 = 0 THEN 1 ELSE n1) * (IF n2 = 0 THEN 1 ELSE n2)]

\* lines 63-65: the match percentage is 100 * dot / sqrt(den2); fitting an
\* empty vocabulary raises ValueError
Score(processed_resume, processed_job) ==
    LET fitted == FitTransform(<<processed_resume, processed_job>>)
    IN  IF fitted.vocabulary_ = {}
        THEN [ok |-> FALSE, exc |-> "ValueError"]
        ELSE [ok |-> TRUE,
              match_percentage |-> Cosine(fitted.vectors[1], fitted.vectors[2])]

\* match_percentage == 0.0
IsZero(p) == p.dot = 0
\* match_percentage == 100.0
IsHundred(p) == p.dot > 0 /\ p.dot * p.dot = p.den2
\* match_percentage < t, for a threshold t that is a multiple of 5
Below(p, t) == 400 * p.dot * p.dot < (t \div 5) * (t \div 5) * p.den2

\* analyze_resume, lines 49-71
analyze_resume(model, resume_text, job_desc) ==
    LET processed_resume == preprocess_text(resume_text)
        processed_job == preprocess_text(job_desc)
        resume_skills == extract_skills_from_text(model, resume_text)
        job_skills == extract_skills_from_text(model, job_desc)
        cmp == CompareSkills(resume_skills, job_skills)
        sc == Score(processed_resume, processed_job)
    IN  IF ~sc.ok THEN sc
        ELSE [ok |-> TRUE,
              match_percentage |-> sc.match_percentage,
              matching_skills |-> cmp.matching_skills,
              missing_skills |-> cmp.missing_skills]

(***************************************************************************)
(* Direct calls of preprocess_text on every raw text up to MaxLen.         *)
(***************************************************************************)
RECURSIVE SeqsUpTo(_, _)
SeqsUpTo(S, n) ==
    IF n = 0 THEN {<<>>}
    ELSE LET shorter == SeqsUpTo(S, n - 1)
         IN  shorter \cup {Append(s, x) : s \in {t \in shorter : Len(t) = n - 1}, x \in S}

NormChars == {"A", "U+1D400", "a", "_", ".", "*", "#", " ", "\n"}
RawTexts == SeqsUpTo(NormChars, MaxLen)

\* uploaded_file is None
NoFile == [kind |-> "None"]

AppIdle ==
    /\ nlp = en_core_web_lg
    /\ job_description = <<>>
    /\ uploaded_file = NoFile
    /\ clicked = FALSE
    /\ display = <<>>
    /\ failed_before = FALSE

InitNormalize ==
    /\ AppIdle
    /\ inputs \in {<<t>> : t \in RawTexts}
    /\ ret = <<>>

CallPreprocess ==
    /\ ret = <<>>
    /\ ret' = <<preprocess_text(inputs[1])>>
    /\ UNCHANGED <<nlp, job_description, uploaded_file, clicked, display, failed_before, inputs>>

NextNormalize == CallPreprocess

SpecNormalize == InitNormalize /\ [][NextNormalize]_vars

(***************************************************************************)
(* Direct calls of analyze_resume on every pair of texts of up to MaxWords *)
(* words.                                                                  *)
(***************************************************************************)
AnalyzeWords == {W_py, W_db, W_C, W_we, W_bang}
AnalyzeTexts == {JoinSp(ws) : ws \in SeqsUpTo(AnalyzeWords, MaxWords)}

InitAnalyze ==
    /\ AppIdle
    /\ inputs \in AnalyzeTexts \X AnalyzeTexts
    /\ ret = <<>>

CallAnalyze ==
    /\ ret = <<>>
    /\ ret' = <<analyze_resume(nlp, inputs[1], inputs[2])>>
    /\ UNCHANGED <<nlp, job_description, uploaded_file, clicked, display, failed_before, inputs>>

NextAnalyze == CallAnalyze

SpecAnalyze == InitAnalyze /\ [][NextAnalyze]_vars

(***************************************************************************)
(* Direct calls of the skill comparison on every pair of sets of up to     *)
(* MaxSkills skills.                                                       *)
(***************************************************************************)
SkillNames == <<W_py, W_db, <<"c">>, <<"a", "l">>, <<"a", "w", "s">>, <<"e", "l", "b">>>>
Skills == {SkillNames[i] : i \in 1..MaxSkills}

InitCompare ==
    /\ AppIdle
    /\ inputs \in (SUBSET Skills) \X (SUBSET Skills)
    /\ ret = <<>>

CallCompare ==
    /\ ret = <<>>
    /\ ret' = <<CompareSkills(inputs[1], inputs[2])>>
    /\ UNCHANGED <<nlp, job_description, uploaded_file, clicked, display, failed_before, inputs>>

NextCompare == CallCompare

SpecCompare == InitCompare /\ [][NextCompare]_vars

(***************************************************************************)
(* The Streamlit script, lines 74-141.  Every interaction runs the script  *)
(* again from the top; `pressed` is the value st.button returns in the     *)
(* run.                                                                    *)
(***************************************************************************)
\* ord(c)
CodePoint(c) ==
    CASE c = "\n" -> 10 [] c = " " -> 32 [] c = "!" -> 33 [] c = "#" -> 35
      [] c = "*" -> 42 [] c = "." -> 46 [] c = "A" -> 65 [] c = "C" -> 67
      [] c = "_" -> 95 [] c = "a" -> 97 [] c = "b" -> 98 [] c = "c" -> 99
      [] c = "d" -> 100 [] c = "e" -> 101 [] c = "l" -> 108 [] c = "p" -> 112
      [] c = "s" -> 115 [] c = "w" -> 119 [] c = "y" -> 121
      [] c = "U+1D400" -> 119808

\* a <= b for Python strings
RECURSIVE StrLeq(_, _)
StrLeq(a, b) ==
    IF a = <<>> THEN TRUE
    ELSE IF b = <<>> THEN FALSE
    ELSE IF a[1] = b[1] THEN StrLeq(Tail(a), Tail(b))
    ELSE CodePoint(a[1]) < CodePoint(b[1])

\* sorted(S) for a set of strings
RECURSIVE sorted(_)
sorted(S) ==
    IF S = {} THEN <<>>
    ELSE LET least == CHOOSE x \in S : \A y \in S : StrLeq(x, y)
         IN  <<least>> \o sorted(S \ {least})

RECURSIVE Concat(_)
Concat(texts) == IF texts = <<>> THEN <<>> ELSE texts[1] \o Concat(Tail(texts))

\* extract_text_from_pdf, lines 13-19: PdfReader raises on bytes that are no
\* PDF; pages[i] is what page i's extract_text() returns
extract_text_from_pdf(file) ==
    IF file.kind = "malformed"
    THEN [ok |-> FALSE, exc |-> "PdfReadError"]
    ELSE [ok |-> TRUE, text |-> Concat(file.pages)]

\* nlp(text), lines 32 and 41: the pipeline after it annotated a text is
\* the pipeline as loaded
Annotated(model, text) == model

SuggestionsBelow == 85
VideosBelow == 50

\* a faulty variant of ShowVideos: the links use the suggestions' threshold
ShowVideos_at_85(score) == Below(score, SuggestionsBelow)

\* line 122, line 131
ShowSuggestions(score) == Below(score, SuggestionsBelow)
ShowVideos(score) == Below(score, VideosBelow)

\* lines 91-135: what the handler renders from a result
Render(applicant_name, results) ==
    <<[kind |-> "name", text |-> applicant_name],
      [kind |-> "score", match_percentage |-> results.match_percentage],
      [kind |-> "matching", skills |-> sorted(results.matching_skills)],
      [kind |-> "missing", skills |-> sorted(results.missing_skills)]>>
    \o (IF ShowSuggestions(results.match_percentage)
        THEN <<[kind |-> "suggestions"]>> ELSE <<>>)
    \o (IF ShowVideos(results.match_percentage)
        THEN <<[kind |-> "videos"]>> ELSE <<>>)

\* lines 137-139
RenderError(exc) ==
    <<[kind |-> "error", exc |-> exc], [kind |-> "error", exc |-> "hint"]>>

\* a faulty variant of Handler: the applicant's name is rendered as soon as it is
\* known, before analyze_resume is called
Handler_name_first(model, file, job_desc) ==
    LET extracted == extract_text_from_pdf(file)
    IN  IF ~extracted.ok THEN RenderError(extracted.exc)
        ELSE LET applicant_name == extract_name_from_text(model, extracted.text)
                 results == analyze_resume(model, extracted.text, job_desc)
             IN  IF ~results.ok
                 THEN <<[kind |-> "name", text |-> applicant_name]>>
                          \o RenderError(results.exc)
                 ELSE Render(applicant_name, results)

\* the try block, lines 85-139: every call that can raise comes before the
\* first st.* call
Handler(model, file, job_desc) ==
    LET extracted == extract_text_from_pdf(file)
    IN  IF ~extracted.ok THEN RenderError(extracted.exc)
        ELSE LET applicant_name == extract_name_from_text(model, extracted.text)
                 results == analyze_resume(model, extracted.text, job_desc)
             IN  IF ~results.ok THEN RenderError(results.exc)
                 ELSE Render(applicant_name, results)

\* a faulty variant of HandlerModel: annotating a text adds its tokens to the
\* pipeline's stop words
HandlerModel_learns(model, file, job_desc) ==
    [model EXCEPT !.stop = @ \cup {Lower(Doc(job_desc)[i]) : i \in 1..Len(Doc(job_desc))}]

\* nlp after the handler ran: it made up to three nlp(text) calls
HandlerModel(model, file, job_desc) ==
    LET extracted == extract_text_from_pdf(file)
    IN  IF ~extracted.ok THEN model
        ELSE Annotated(Annotated(Annotated(model, extracted.text),
                                 extracted.text), job_desc)

\* one run of the script, lines 74-141: the elements after the two widgets
Script(model, file, job_desc, pressed) ==
    (IF file # NoFile THEN <<[kind |-> "success"]>> ELSE <<>>)
    \o (IF ~pressed THEN <<>>
        ELSE IF file # NoFile /\ job_desc # <<>>
             THEN Handler(model, file, job_desc)
             ELSE <<[kind |-> "warning"]>>)

Kinds(elements) == {elements[i].kind : i \in 1..Len(elements)}

\* how an analysis ended, read off what it rendered
Outcome(elements) ==
    IF "error" \in Kinds(elements) THEN "error"
    ELSE IF "warning" \in Kinds(elements) THEN "warning"
    ELSE "result"

(***************************************************************************)
(* The session: the user edits the job description, uploads or removes a   *)
(* file, and presses "Analyze Resume".                                     *)
(***************************************************************************)
AppWords == {W_Al, W_py, W_C}
JobTexts == {JoinSp(ws) : ws \in SeqsUpTo(AppWords, MaxJobWords)}

RECURSIVE TotalLen(_)
TotalLen(seqs) == IF seqs = <<>> THEN 0 ELSE Len(seqs[1]) + TotalLen(Tail(seqs))

\* what st.file_uploader can return: a PDF of up to MaxPages pages, or a
\* .pdf file whose bytes are no PDF
Files ==
    {[kind |-> "pdf", pages |-> [i \in DOMAIN p |-> JoinSp(p[i])]] :
        p \in {q \in SeqsUpTo(SeqsUpTo(AppWords, MaxDocWords), MaxPages) :
                  TotalLen(q) <= MaxDocWords}}
    \cup {[kind |-> "malformed"]}

Init ==
    /\ AppIdle
    /\ inputs = <<>>
    /\ ret = <<>>

EditJobDescription ==
    /\ \E t \in JobTexts :
          /\ t # job_description
          /\ job_description' = t
          /\ display' = Script(nlp, uploaded_file, t, FALSE)
    /\ clicked' = FALSE
    /\ UNCHANGED <<nlp, uploaded_file, failed_before, inputs, ret>>

UploadFile ==
    /\ \E f \in Files :
          /\ f # uploaded_file
          /\ uploaded_file' = f
          /\ display' = Script(nlp, f, job_description, FALSE)
    /\ clicked' = FALSE
    /\ UNCHANGED <<nlp, job_description, failed_before, inputs, ret>>

RemoveFile ==
    /\ uploaded_file # NoFile
    /\ uploaded_file' = NoFile
    /\ display' = Script(nlp, NoFile, job_description, FALSE)
    /\ clicked' = FALSE
    /\ UNCHANGED <<nlp, job_description, failed_before, inputs, ret>>

AnalyzeResumeButton ==
    /\ clicked' = TRUE
    /\ display' = Script(nlp, uploaded_file, job_description, TRUE)
    /\ nlp' = IF uploaded_file # NoFile /\ job_description # <<>>
              THEN HandlerModel(nlp, uploaded_file, job_description)
              ELSE nlp
    /\ failed_before' = (failed_before \/ Outcome(display') = "error")
    /\ UNCHANGED <<job_description, uploaded_file, inputs, ret>>

Next ==
    \/ EditJobDescription
    \/ UploadFile
    \/ RemoveFile
    \/ AnalyzeResumeButton

Spec == Init /\ [][Next]_vars

(***************************************************************************)
(* Properties of the session (Spec).                                       *)
(***************************************************************************)
ResultKinds == {"name", "score", "matching", "missing"}

CountKind(elements, kind) ==
    Cardinality({i \in 1..Len(elements) : elements[i].kind = kind})

\* the element of a kind, where there is exactly one
Element(elements, kind) ==
    elements[CHOOSE i \in 1..Len(elements) : elements[i].kind = kind]

\* every field of a result is rendered, once, and no error
Complete(elements) ==
    /\ \A k \in ResultKinds : CountKind(elements, k) = 1
    /\ "error" \notin Kinds(elements)

\* an error is rendered and nothing of a result
Failed(elements) ==
    /\ "error" \in Kinds(elements)
    /\ Kinds(elements) \cap (ResultKinds \cup {"suggestions", "videos"}) = {}

\* the last run of the script went into the try block, line 84
Analysed == clicked /\ uploaded_file # NoFile /\ job_description # <<>>

\* C2: an analysis ends either in a complete result or in an error, never
\* both and never with a part of a result; text extraction on malformed
\* document bytes ends in the error, with no field rendered.
C2_CompleteOrError ==
    /\ Analysed =>
          /\ Complete(display) \/ Failed(display)
          /\ ~(Complete(display) /\ Failed(display))
          /\ uploaded_file.kind = "malformed" =>
                /\ Failed(display)
                /\ \E i \in 1..Len(display) :
                      display[i] = [kind |-> "error", exc |-> "PdfReadError"]
    /\ ~Analysed => Kinds(display) \cap (ResultKinds \cup {"error"}) = {}

\* an analysis of a malformed document has ended in the error
C2_Witness ==
    /\ Analysed
    /\ uploaded_file.kind = "malformed"
    /\ Failed(display)

\* C8: for a document whose pages all have no text and a non-empty job
\* description, the analysis completes with "Unknown Applicant", no matching
\* skill, the job's skills missing, and score 0.0.
C8_NoTextDocument ==
    (/\ Analysed
     /\ uploaded_file.kind = "pdf"
     /\ \A i \in 1..Len(uploaded_file.pages) : uploaded_file.pages[i] = <<>>
     /\ job_description # <<>>) =>
        /\ Complete(display)
        /\ Element(display, "name").text = UnknownApplicant
        /\ Element(display, "matching").skills = <<>>
        /\ Element(display, "missing").skills =
               sorted(extract_skills_from_text(en_core_web_lg, job_description))
        /\ IsZero(Element(display, "score").match_percentage)

\* C9: after a successful analysis the suggestions are shown iff score < 85
\* and the links iff score < 50; the links never without the suggestions,
\* and neither when the analysis failed.
C9_Thresholds ==
    LET shown == Kinds(display)
    IN  /\ Complete(display) =>
              LET score == Element(display, "score").match_percentage
              IN  /\ ("suggestions" \in shown) <=> Below(score, 85)
                  /\ ("videos" \in shown) <=> Below(score, 50)
        /\ ~Complete(display) => shown \cap {"suggestions", "videos"} = {}
        /\ "videos" \in shown => "suggestions" \in shown

\* a result whose score is at least 50 and below 85
C9_Witness ==
    /\ Complete(display)
    /\ "suggestions" \in Kinds(display)
    /\ "videos" \notin Kinds(display)

C4_Idempotent ==
    Returned =>
        /\ preprocess_text(Result) = Result
        /\ (inputs[1] = <<>> => Result = <<>>)

\* a call that changed its input and returned two tokens
C4_Witness ==
    /\ Returned
    /\ Result # inputs[1]
    /\ Len(Split(Result)) = 2

\* C5: the output of normalize has no uppercase letter, no punctuation
\* character (underscore included), no '*' or '#', no run of two or more
\* whitespace characters and no leading or trailing whitespace.
C5_NormalizedText ==
    Returned =>
        /\ \A i \in 1..Len(Result) :
              /\ Result[i] \notin UpperChars
              /\ Result[i] \notin Punctuation \cup {"_"}
              /\ Result[i] \notin {"*", "#"}
              /\ IsSpace(Result[i]) => Result[i] = " "
        /\ \A i \in 1..(Len(Result) - 1) : ~(IsSpace(Result[i]) /\ IsSpace(Result[i + 1]))
        /\ Result # <<>> => ~IsSpace(Result[1]) /\ ~IsSpace(Result[Len(Result)])

(***************************************************************************)
(* Properties of the skill comparison (SpecCompare).                       *)
(***************************************************************************)
\* C3: matching = resumeSkills \cap jobSkills and missing = jobSkills minus
\* resumeSkills, so matching and missing are disjoint and together make up
\* jobSkills.
C3_Compare ==
    Returned =>
        /\ Result.matching_skills = inputs[1] \cap inputs[2]
        /\ Result.missing_skills = inputs[2] \ inputs[1]
        /\ Result.matching_skills \cap Result.missing_skills = {}
        /\ Result.matching_skills \cup Result.missing_skills = inputs[2]

\* a comparison with a matching, a missing and a surplus skill
C3_Witness ==
    /\ Returned
    /\ Result.matching_skills # {}
    /\ Result.missing_skills # {}
    /\ inputs[1] \ inputs[2] # {}

(***************************************************************************)
(* Properties of the similarity score (SpecAnalyze).                       *)
(***************************************************************************)
\* C1: score(a, "") is exactly 0.0 and raises nothing, for any text a,
\* also one that is empty or yields no vocabulary term.
C1_EmptyComparandIsZero ==
    (Returned /\ preprocess_text(inputs[2]) = <<>>) =>
        (Result.ok /\ IsZero(Result.match_percentage))

\* C6: score(a, a) completes and is 100.0 for any a that is non-empty after
\* normalization, also one whose tokens are all single characters.
C6_SelfSimilarity ==
    (Returned /\ inputs[1] = inputs[2] /\ preprocess_text(inputs[1]) # <<>>) =>
        (Result.ok /\ IsHundred(Result.match_percentage))

\* the outcome of the scoring alone: the percentage, or the exception
ScoreOf(r) == IF r.ok THEN r.match_percentage ELSE r

\* C7: the score is symmetric, score(a, b) = score(b, a) for all texts.
C7_Symmetric ==
    Returned =>
        ScoreOf(Result) = ScoreOf(analyze_resume(nlp, inputs[2], inputs[1]))

\* a call on two different texts whose score is strictly between 0 and 100
C7_Witness ==
    /\ Returned
    /\ Result.ok
    /\ preprocess_text(inputs[1]) # preprocess_text(inputs[2])
    /\ ~IsZero(Result.match_percentage)
    /\ ~IsHundred(Result.match_percentage)

=============================================================================
